---- MODULE Spec2Model ----
(***************************************************************************)
(* A model of TFIM/TFIM_chiF.py: the sweep driver (__main__) that sets the *)
(* field g, rebuilds the dense Hamiltonian and runs the four evaluators    *)
(* of the fidelity susceptibility chi_F, and the arithmetic of the         *)
(* evaluators themselves.                                                  *)
(*                                                                         *)
(* Spec      the driver.  Tensors are represented by what they were built  *)
(*           from (the value of g, the identity of the g tensor), program  *)
(*           positions by the source line about to run.                    *)
(* SpecEval  the evaluators on concrete small inputs, exact arithmetic     *)
(*           with the IEEE outcomes of a division by zero (inf, nan).      *)
(***************************************************************************)
EXTENDS Integers, Sequences, FiniteSets, TLC

VARIABLES
    pc,                  \* the source line about to run, "done" or "raised"
    i,                   \* the loop index of line 78 (1-based here)
    gs,                  \* the grid of line 73
    model,               \* the TFIM object: g, Hmatrix, pHpgmatrix
    wiring,              \* the process-wide functions of DominantSparseEigenAD.Lanczos
    chiFs_perturbation,  \* the four result arrays of lines 74-77
    chiFs_matrixAD,
    chiFs_sparseAD,
    chiFs_geometric,
    eigenpair,           \* the driver's locals E0, psi0 (line 87)
    frame,               \* the locals of the evaluator that is running
    printed,             \* the lines written by print (lines 91-95)
    plotted,             \* whether the figure was shown (lines 96-107)
    log,                 \* the statements run so far in this iteration
    traceback,           \* the line an uncaught exception was raised at
    ev                   \* the evaluator under SpecEval

vars == <<pc, i, gs, model, wiring, chiFs_perturbation, chiFs_matrixAD,
          chiFs_sparseAD, chiFs_geometric, eigenpair, frame, printed,
          plotted, log, traceback, ev>>

driverVars == <<pc, i, gs, model, wiring, chiFs_perturbation, chiFs_matrixAD,
                chiFs_sparseAD, chiFs_geometric, eigenpair, frame, printed,
                plotted, log, traceback>>

----------------------------------------------------------------------------
(* Bounds *)

\* The number of grid points (Npoints of line 72, 100 there).
Npoints == 3

\* The grid values are drawn from 1..MaxG.
MaxG == 2

GVals == 1..MaxG

----------------------------------------------------------------------------
(* The driver: values *)

\* A result nobody wrote yet (np.empty).
Empty == [method |-> "empty", deps |-> <<>>]

\* A chi_F value, represented by the evaluator that produced it and the
\* values of g its inputs were built from.
Chi(method, deps) == [method |-> method, deps |-> deps]

\* TFIM(N): no g tensor of the sweep, no matrices built.
NewModel ==
    [g          |-> [val |-> 0, id |-> 0, requires_grad |-> FALSE],
     Hmatrix    |-> [built |-> FALSE, val |-> 0, gid |-> 0, tracked |-> FALSE],
     pHpgmatrix |-> [built |-> FALSE]]

NoWiring == [set |-> FALSE, H |-> "none", Hadjoint |-> "none"]

NoEigenpair == [defined |-> FALSE, val |-> 0, gid |-> 0, tracked |-> FALSE,
                H |-> "none"]

\* The locals of an evaluator: the eigenpair it holds, the primitive it
\* looked up, whether b and dpsi0 exist, how many grad passes ran.
NoFrame == [fn |-> "none", eig |-> NoEigenpair, apply |-> NoWiring,
            b |-> FALSE, dpsi0 |-> FALSE, graph |-> 0]

\* (a variant that rebuilds the matrix after chiF_perturbation has run)
DriverBody_SetHmatrixLate ==
    <<"L79", "L80", "L83", "L82", "L85", "L87", "L89", "L91">>

\* The statements of the loop body, in program order (lines 79-95).
DriverBody == <<"L79", "L80", "L82", "L83", "L85", "L87", "L89", "L91">>

IndexOf(p) == CHOOSE n \in 1..Len(DriverBody) : DriverBody[n] = p

\* The statement after p in the loop body; after the last one, the loop head.
NextStmt(p) ==
    IF IndexOf(p) = Len(DriverBody) THEN "L78" ELSE DriverBody[IndexOf(p) + 1]

\* model.g = torch.Tensor([gs[i]]).to(torch.float64): a new tensor.
SetG(m, n, g) ==
    [m EXCEPT !.g = [val |-> g, id |-> n, requires_grad |-> FALSE]]

\* model.g.requires_grad_(True)
RequiresGrad(m) == [m EXCEPT !.g.requires_grad = TRUE]

\* model.setHmatrix(): the dense matrix of the current g.
setHmatrix(m) ==
    [m EXCEPT !.Hmatrix = [built |-> TRUE, val |-> m.g.val, gid |-> m.g.id,
                           tracked |-> m.g.requires_grad]]

\* model.setpHpg(): the matrix of dH/dg.
setpHpg(m) == [m EXCEPT !.pHpgmatrix = [built |-> TRUE]]

\* lanczos.setDominantSparseSymeig(model.H, model.Hadjoint_to_gadjoint)
setDominantSparseSymeig(w) ==
    [set |-> TRUE, H |-> "model.H", Hadjoint |-> "model.Hadjoint_to_gadjoint"]

ModelWiring ==
    [set |-> TRUE, H |-> "model.H", Hadjoint |-> "model.Hadjoint_to_gadjoint"]

\* torch.autograd.grad(out, model.g): out must hang on the current g tensor,
\* and that tensor must require grad.
CanGrad(m, e) ==
    /\ e.defined
    /\ e.tracked
    /\ e.gid = m.g.id
    /\ m.g.requires_grad

----------------------------------------------------------------------------
(* The driver: Init *)

Init ==
    /\ pc = "L78"
    /\ i = 0
    /\ gs \in [1..Npoints -> GVals]
    /\ model = NewModel
    /\ wiring = NoWiring
    /\ chiFs_perturbation = [n \in 1..Npoints |-> Empty]
    /\ chiFs_matrixAD = [n \in 1..Npoints |-> Empty]
    /\ chiFs_sparseAD = [n \in 1..Npoints |-> Empty]
    /\ chiFs_geometric = [n \in 1..Npoints |-> Empty]
    /\ eigenpair = NoEigenpair
    /\ frame = NoFrame
    /\ printed = <<>>
    /\ plotted = FALSE
    /\ log = <<>>
    /\ traceback = "none"
    /\ ev = "unused"

----------------------------------------------------------------------------
(* The driver: one action per statement *)

Statements ==
    {"L79", "L80", "L82", "L83", "L85", "L87", "L89", "L91", "L96",
     "L15", "L18", "L19", "L31", "L32", "L34", "L35",
     "L44", "L45", "L46", "L47", "L49", "L50", "L61", "L64", "L65"}

\* The eigenpair a dense routine computes from model.Hmatrix.
OfHmatrix(m) ==
    [defined |-> TRUE, val |-> m.Hmatrix.val, gid |-> m.Hmatrix.gid,
     tracked |-> m.Hmatrix.tracked, H |-> "model.Hmatrix"]

\* The eigenpair the sparse primitive computes from model.g through the
\* function it was wired with.
OfG(m, w) ==
    [defined |-> TRUE, val |-> m.g.val, gid |-> m.g.id,
     tracked |-> m.g.requires_grad, H |-> w.H]

\* line 78: for i in range(Npoints); after the loop i keeps its last value.
LoopHead ==
    /\ pc = "L78"
    /\ IF i < Npoints
       THEN /\ i' = i + 1
            /\ pc' = DriverBody[1]
       ELSE /\ i' = i
            /\ pc' = "L96"
    /\ log' = <<>>
    /\ UNCHANGED <<gs, model, wiring, chiFs_perturbation, chiFs_matrixAD,
                   chiFs_sparseAD, chiFs_geometric, eigenpair, frame,
                   printed, plotted, traceback, ev>>

\* line 79
Line79 ==
    /\ pc = "L79"
    /\ model' = SetG(model, i, gs[i])
    /\ log' = Append(log, "set_g")
    /\ pc' = NextStmt("L79")
    /\ UNCHANGED <<i, gs, wiring, chiFs_perturbation, chiFs_matrixAD,
                   chiFs_sparseAD, chiFs_geometric, eigenpair, frame,
                   printed, plotted, traceback, ev>>

\* line 80
Line80 ==
    /\ pc = "L80"
    /\ model' = RequiresGrad(model)
    /\ log' = Append(log, "requires_grad")
    /\ pc' = NextStmt("L80")
    /\ UNCHANGED <<i, gs, wiring, chiFs_perturbation, chiFs_matrixAD,
                   chiFs_sparseAD, chiFs_geometric, eigenpair, frame,
                   printed, plotted, traceback, ev>>

\* (a variant that builds the matrix in the first iteration only)
Line82_FirstIterationOnly ==
    /\ pc = "L82"
    /\ model' = IF model.Hmatrix.built THEN model ELSE setHmatrix(model)
    /\ log' = Append(log, "setHmatrix")
    /\ pc' = NextStmt("L82")
    /\ UNCHANGED <<i, gs, wiring, chiFs_perturbation, chiFs_matrixAD,
                   chiFs_sparseAD, chiFs_geometric, eigenpair, frame,
                   printed, plotted, traceback, ev>>

\* line 82
Line82 ==
    /\ pc = "L82"
    /\ model' = setHmatrix(model)
    /\ log' = Append(log, "setHmatrix")
    /\ pc' = NextStmt("L82")
    /\ UNCHANGED <<i, gs, wiring, chiFs_perturbation, chiFs_matrixAD,
                   chiFs_sparseAD, chiFs_geometric, eigenpair, frame,
                   printed, plotted, traceback, ev>>

\* The call of an evaluator from line p: control enters the function at entry.
Call(p, fn, entry) ==
    /\ pc = p
    /\ frame' = [NoFrame EXCEPT !.fn = fn]
    /\ log' = Append(log, fn)
    /\ pc' = entry
    /\ UNCHANGED <<i, gs, model, wiring, chiFs_perturbation, chiFs_matrixAD,
                   chiFs_sparseAD, chiFs_geometric, eigenpair, printed,
                   plotted, traceback, ev>>

\* line 83, the call
Line83 == Call("L83", "chiF_perturbation", "L15")

\* lines 15-16: Es, psis = torch.symeig(model.Hmatrix); psi0 = psis[:, 0]
Line15 ==
    /\ pc = "L15"
    /\ model.Hmatrix.built
    /\ frame' = [frame EXCEPT !.eig = OfHmatrix(model)]
    /\ pc' = "L18"
    /\ UNCHANGED <<i, gs, model, wiring, chiFs_perturbation, chiFs_matrixAD,
                   chiFs_sparseAD, chiFs_geometric, eigenpair, printed,
                   plotted, log, traceback, ev>>

\* line 18
Line18 ==
    /\ pc = "L18"
    /\ model' = setpHpg(model)
    /\ pc' = "L19"
    /\ UNCHANGED <<i, gs, wiring, chiFs_perturbation, chiFs_matrixAD,
                   chiFs_sparseAD, chiFs_geometric, eigenpair, frame,
                   printed, plotted, log, traceback, ev>>

\* lines 19-22, and the assignment of line 83
Line19 ==
    /\ pc = "L19"
    /\ model.pHpgmatrix.built
    /\ chiFs_perturbation' =
           [chiFs_perturbation EXCEPT ![i] = Chi("perturbation", <<frame.eig.val>>)]
    /\ frame' = NoFrame
    /\ log' = Append(log, "record_perturbation")
    /\ pc' = NextStmt("L83")
    /\ UNCHANGED <<i, gs, model, wiring, chiFs_matrixAD, chiFs_sparseAD,
                   chiFs_geometric, eigenpair, printed, plotted, traceback, ev>>

\* line 85, the call
Line85 == Call("L85", "chiF_matrixAD", "L31")

\* lines 29-31: E0, psi0 = dominant_symeig(model.Hmatrix, k)
Line31 ==
    /\ pc = "L31"
    /\ model.Hmatrix.built
    /\ frame' = [frame EXCEPT !.eig = OfHmatrix(model)]
    /\ pc' = "L32"
    /\ UNCHANGED <<i, gs, model, wiring, chiFs_perturbation, chiFs_matrixAD,
                   chiFs_sparseAD, chiFs_geometric, eigenpair, printed,
                   plotted, log, traceback, ev>>

\* A grad pass of an AD evaluator (lines 32-33, 34, 47-48, 49).
GradPass(p, next) ==
    /\ pc = p
    /\ CanGrad(model, frame.eig)
    /\ frame' = [frame EXCEPT !.graph = @ + 1]
    /\ pc' = next
    /\ UNCHANGED <<i, gs, model, wiring, chiFs_perturbation, chiFs_matrixAD,
                   chiFs_sparseAD, chiFs_geometric, eigenpair, printed,
                   plotted, log, traceback, ev>>

Line32 == GradPass("L32", "L34")

Line34 == GradPass("L34", "L35")

\* lines 35-36, and the assignment of line 85
Line35 ==
    /\ pc = "L35"
    /\ chiFs_matrixAD' =
           [chiFs_matrixAD EXCEPT
               ![i] = Chi("matrixAD", <<frame.eig.val, model.g.val>>)]
    /\ frame' = NoFrame
    /\ log' = Append(log, "record_matrixAD")
    /\ pc' = NextStmt("L85")
    /\ UNCHANGED <<i, gs, model, wiring, chiFs_perturbation, chiFs_sparseAD,
                   chiFs_geometric, eigenpair, printed, plotted, traceback, ev>>

\* line 87, the call
Line87 == Call("L87", "chiF_sparseAD", "L44")

\* (a variant without the setup call)
Line44_NoSetup ==
    /\ pc = "L44"
    /\ wiring' = wiring
    /\ pc' = "L45"
    /\ UNCHANGED <<i, gs, model, chiFs_perturbation, chiFs_matrixAD,
                   chiFs_sparseAD, chiFs_geometric, eigenpair, frame,
                   printed, plotted, log, traceback, ev>>

\* lines 43-44
Line44 ==
    /\ pc = "L44"
    /\ wiring' = setDominantSparseSymeig(wiring)
    /\ pc' = "L45"
    /\ UNCHANGED <<i, gs, model, chiFs_perturbation, chiFs_matrixAD,
                   chiFs_sparseAD, chiFs_geometric, eigenpair, frame,
                   printed, plotted, log, traceback, ev>>

\* line 45: the class exists only once the setup call has run.
Line45 ==
    /\ pc = "L45"
    /\ wiring.set
    /\ frame' = [frame EXCEPT !.apply = wiring]
    /\ pc' = "L46"
    /\ UNCHANGED <<i, gs, model, wiring, chiFs_perturbation, chiFs_matrixAD,
                   chiFs_sparseAD, chiFs_geometric, eigenpair, printed,
                   plotted, log, traceback, ev>>

\* line 46: E0, psi0 = dominant_sparse_symeig(model.g, k, model.dim)
Line46 ==
    /\ pc = "L46"
    /\ frame' = [frame EXCEPT !.eig = OfG(model, frame.apply)]
    /\ pc' = "L47"
    /\ UNCHANGED <<i, gs, model, wiring, chiFs_perturbation, chiFs_matrixAD,
                   chiFs_sparseAD, chiFs_geometric, eigenpair, printed,
                   plotted, log, traceback, ev>>

Line47 == GradPass("L47", "L49")

Line49 == GradPass("L49", "L50")

\* (a variant that leaves E0, psi0 as they were)
Line87_KeepsEigenpair(old, new) == old

\* What line 87 assigns to E0, psi0, given what they held and what the call
\* returned.
Line87_Eigenpair(old, new) == new

\* lines 50-51, and the assignment of line 87
Line50 ==
    /\ pc = "L50"
    /\ chiFs_sparseAD' =
           [chiFs_sparseAD EXCEPT
               ![i] = Chi("sparseAD", <<frame.eig.val, model.g.val>>)]
    /\ eigenpair' = Line87_Eigenpair(eigenpair, frame.eig)
    /\ frame' = NoFrame
    /\ log' = Append(log, "record_sparseAD")
    /\ pc' = NextStmt("L87")
    /\ UNCHANGED <<i, gs, model, wiring, chiFs_perturbation, chiFs_matrixAD,
                   chiFs_geometric, printed, plotted, traceback, ev>>

\* line 89, the call: E0 and psi0 must be bound.
Line89 ==
    /\ eigenpair.defined
    /\ Call("L89", "chiF_geometric", "L61")

\* lines 60-62: b = -model.pHpg(psi0), then the projection
Line61 ==
    /\ pc = "L61"
    /\ frame' = [frame EXCEPT !.eig = eigenpair, !.b = TRUE]
    /\ pc' = "L64"
    /\ UNCHANGED <<i, gs, model, wiring, chiFs_perturbation, chiFs_matrixAD,
                   chiFs_sparseAD, chiFs_geometric, eigenpair, printed,
                   plotted, log, traceback, ev>>

\* lines 63-64: dpsi0 = cg(model.g, E0, b, psi0), through the wired function
Line64 ==
    /\ pc = "L64"
    /\ wiring.set
    /\ frame' = [frame EXCEPT !.apply = wiring, !.dpsi0 = TRUE]
    /\ pc' = "L65"
    /\ UNCHANGED <<i, gs, model, wiring, chiFs_perturbation, chiFs_matrixAD,
                   chiFs_sparseAD, chiFs_geometric, eigenpair, printed,
                   plotted, log, traceback, ev>>

\* lines 65-66, and the assignment of line 89
Line65 ==
    /\ pc = "L65"
    /\ chiFs_geometric' =
           [chiFs_geometric EXCEPT
               ![i] = Chi("geometric", <<frame.eig.val, model.g.val>>)]
    /\ frame' = NoFrame
    /\ log' = Append(log, "record_geometric")
    /\ pc' = NextStmt("L89")
    /\ UNCHANGED <<i, gs, model, wiring, chiFs_perturbation, chiFs_matrixAD,
                   chiFs_sparseAD, eigenpair, printed, plotted, traceback, ev>>

\* lines 91-95
Line91 ==
    /\ pc = "L91"
    /\ printed' = Append(printed,
                         [g |-> gs[i],
                          chiF_perturbation |-> chiFs_perturbation[i],
                          chiF_matrixAD |-> chiFs_matrixAD[i],
                          chiF_sparseAD |-> chiFs_sparseAD[i],
                          chiF_geometric |-> chiFs_geometric[i]])
    /\ log' = Append(log, "print")
    /\ pc' = NextStmt("L91")
    /\ UNCHANGED <<i, gs, model, wiring, chiFs_perturbation, chiFs_matrixAD,
                   chiFs_sparseAD, chiFs_geometric, eigenpair, frame,
                   plotted, traceback, ev>>

\* lines 96-107
Line96 ==
    /\ pc = "L96"
    /\ plotted' = TRUE
    /\ pc' = "done"
    /\ UNCHANGED <<i, gs, model, wiring, chiFs_perturbation, chiFs_matrixAD,
                   chiFs_sparseAD, chiFs_geometric, eigenpair, frame,
                   printed, log, traceback, ev>>

\* Any statement may raise; nothing in the file catches it (no try/except
\* in lines 1-107), so the interpreter exits with the traceback.
\* (a variant that catches the exception and goes on with the sweep)
Raise_Swallowed ==
    /\ pc \in Statements
    /\ traceback' = pc
    /\ pc' = IF pc = "L96" THEN "done" ELSE "L78"
    /\ UNCHANGED <<i, gs, model, wiring, chiFs_perturbation, chiFs_matrixAD,
                   chiFs_sparseAD, chiFs_geometric, eigenpair, frame,
                   printed, plotted, log, ev>>

Raise ==
    /\ pc \in Statements
    /\ traceback' = pc
    /\ pc' = "raised"
    /\ UNCHANGED <<i, gs, model, wiring, chiFs_perturbation, chiFs_matrixAD,
                   chiFs_sparseAD, chiFs_geometric, eigenpair, frame,
                   printed, plotted, log, ev>>

Next ==
    \/ LoopHead
    \/ Line79
    \/ Line80
    \/ Line82
    \/ Line83
    \/ Line15
    \/ Line18
    \/ Line19
    \/ Line85
    \/ Line31
    \/ Line32
    \/ Line34
    \/ Line35
    \/ Line87
    \/ Line44
    \/ Line45
    \/ Line46
    \/ Line47
    \/ Line49
    \/ Line50
    \/ Line89
    \/ Line61
    \/ Line64
    \/ Line65
    \/ Line91
    \/ Line96
    \/ Raise

Spec == Init /\ [][Next]_vars

----------------------------------------------------------------------------
(* The evaluators on numbers: vectors, matrices, floats *)

\* The dimension of the Hamiltonian (model.dim).
Dim == 2

Idx == 1..Dim

\* The entries of the vectors and of the matrix of dH/dg.
Entries == {-1, 0, 1}

\* The eigenvalues of the Hamiltonian.
EVals == {0, 1, 2}

Vectors == [Idx -> Entries]

\* The symmetric matrices, each from its upper triangle.
UpperTriangle == {rc \in Idx \X Idx : rc[1] <= rc[2]}

SymMatrices ==
    {[r \in Idx |-> [c \in Idx |-> IF r <= c THEN u[<<r, c>>] ELSE u[<<c, r>>]]] :
        u \in [UpperTriangle -> Entries]}

RECURSIVE SumUpTo(_, _)
SumUpTo(f, n) == IF n = 0 THEN 0 ELSE f[n] + SumUpTo(f, n - 1)

\* torch.matmul of two 1-D tensors
Dot(u, v) == SumUpTo([j \in Idx |-> u[j] * v[j]], Dim)

\* torch.matmul of a 1-D tensor and a matrix: u is a row vector
VecMat(u, M) == [c \in Idx |-> SumUpTo([r \in Idx |-> u[r] * M[r][c]], Dim)]

\* a matrix applied to a vector
MatVec(M, v) == [r \in Idx |-> SumUpTo([c \in Idx |-> M[r][c] * v[c]], Dim)]

\* psis[:, n]
Column(M, c) == [r \in Idx |-> M[r][c]]

Scale(a, v) == [j \in Idx |-> a * v[j]]

Minus(u, v) == [j \in Idx |-> u[j] - v[j]]

Plus(u, v) == [j \in Idx |-> u[j] + v[j]]

Diag(d) == [r \in Idx |-> [c \in Idx |-> IF r = c THEN d[r] ELSE 0]]

\* A float64: a finite value n/d in lowest terms, or inf, -inf, nan.
Abs(a) == IF a < 0 THEN -a ELSE a

RECURSIVE GCD(_, _)
GCD(a, b) == IF b = 0 THEN a ELSE GCD(b, a % b)

Fin(n, d) ==
    [k |-> "fin", n |-> n \div GCD(Abs(n), d), d |-> d \div GCD(Abs(n), d)]

Inf == [k |-> "inf", n |-> 0, d |-> 1]

NegInf == [k |-> "-inf", n |-> 0, d |-> 1]

NaN == [k |-> "nan", n |-> 0, d |-> 1]

NoFloat == [k |-> "none", n |-> 0, d |-> 1]

\* (a variant that drops the terms with a zero denominator)
FDiv_Guarded(a, b) ==
    IF b = 0 THEN Fin(0, 1)
    ELSE IF b > 0 THEN Fin(a, b) ELSE Fin(-a, -b)

\* a / b of two tensors holding the integers a and b: a division by zero
\* raises nothing, it gives inf, -inf or nan.
FDiv(a, b) ==
    IF b = 0
    THEN IF a = 0 THEN NaN ELSE IF a > 0 THEN Inf ELSE NegInf
    ELSE IF b > 0 THEN Fin(a, b) ELSE Fin(-a, -b)

FAdd(x, y) ==
    IF x.k = "nan" \/ y.k = "nan" THEN NaN
    ELSE IF x.k = "inf" THEN (IF y.k = "-inf" THEN NaN ELSE Inf)
    ELSE IF x.k = "-inf" THEN (IF y.k = "inf" THEN NaN ELSE NegInf)
    ELSE IF y.k # "fin" THEN y
    ELSE Fin(x.n * y.d + y.n * x.d, x.d * y.d)

FNeg(x) ==
    IF x.k = "inf" THEN NegInf
    ELSE IF x.k = "-inf" THEN Inf
    ELSE IF x.k = "nan" THEN NaN
    ELSE Fin(-x.n, x.d)

\* x >= 0 (False of nan)
FGe0(x) == x.k = "inf" \/ (x.k = "fin" /\ x.n >= 0)

\* Tensor.sum() of a 1-D tensor, given as a sequence
RECURSIVE FSum(_)
FSum(s) == IF s = <<>> THEN Fin(0, 1) ELSE FAdd(Head(s), FSum(Tail(s)))

----------------------------------------------------------------------------
(* The evaluators on numbers: the functions *)

\* The Hamiltonians whose normalised eigenvectors have integer entries: the
\* diagonal ones.
Hmatrices == {Diag(d) : d \in [Idx -> EVals]}

\* The orthogonal matrices with integer entries: column n is plus or minus
\* the unit vector of some row, no row taken twice.
ColumnOrders == {q \in [Idx -> Idx] : \A m, n \in Idx : q[m] = q[n] => m = n}

Orthogonal ==
    {[r \in Idx |-> [c \in Idx |-> IF q[c] = r THEN sg[c] ELSE 0]] :
        q \in ColumnOrders, sg \in [Idx -> {-1, 1}]}

\* torch.symeig(H, eigenvectors=True): the eigenvalues in ascending order,
\* and in column n a normalised eigenvector of eigenvalue n; any such
\* eigenbasis may come back.
SymeigResults(H) ==
    {r \in [Es : [Idx -> EVals], psis : Orthogonal] :
        /\ \A n \in 1..(Dim - 1) : r.Es[n] <= r.Es[n + 1]
        /\ \A n \in Idx :
              MatVec(H, Column(r.psis, n)) = Scale(r.Es[n], Column(r.psis, n))}

\* line 16: psi0 = psis[:, 0]
GroundState(psis) == Column(psis, 1)

\* (a variant that keeps the term n = 0)
Slice1_All(s) == s

\* the slice [1:] of lines 19 and 20
Slice1(s) == Tail(s)

\* line 19: psi0.matmul(model.pHpgmatrix).matmul(psis)[1:] ** 2
Numerators(psi0, P, psis) ==
    LET all == VecMat(VecMat(psi0, P), psis)
        cut == Slice1(all)
    IN  [n \in 1..Len(cut) |-> cut[n] * cut[n]]

\* line 20: (Es[0] - Es[1:]) ** 2
Denominators(Es) ==
    LET cut == Slice1(Es)
    IN  [n \in 1..Len(cut) |-> (Es[1] - cut[n]) * (Es[1] - cut[n])]

\* line 21: (numerators / denominators).sum().item()
ChiF_Perturbation(psi0, P, Es, psis) ==
    LET nums == Numerators(psi0, P, psis)
        dens == Denominators(Es)
    IN  FSum([n \in 1..Len(nums) |-> FDiv(nums[n], dens[n])])

UnitVectors == {v \in Vectors : Dot(v, v) = 1}

OrthogonalTo(v) == {w \in Vectors : Dot(w, v) = 0}

\* The primitive's psi0 as a function of g, to second order at the current
\* g: psi, its first and its second derivative.  The eigenvector is
\* normalised at every g, so psi.psi = 1, psi.dpsi = 0 and
\* psi.d2psi = -dpsi.dpsi; the part of d2psi orthogonal to psi is free.
JetsAt(p) ==
    {[psi |-> p, dpsi |-> d, d2psi |-> Minus(w, Scale(Dot(d, d), p))] :
        d \in OrthogonalTo(p), w \in OrthogonalTo(p)}

NoJet == [psi |-> <<>>, dpsi |-> <<>>, d2psi |-> <<>>]

\* lines 32 and 47: logF = log(psi0.detach() . psi0), as the argument f of
\* the log and its first two derivatives in g; the detached factor is a
\* constant.
LogF(j) ==
    [f   |-> Dot(j.psi, j.psi),
     fp  |-> Dot(j.psi, j.dpsi),
     fpp |-> Dot(j.psi, j.d2psi)]

NoLogF == [f |-> 0, fp |-> 0, fpp |-> 0]

\* lines 33 and 48: dlogF = d/dg log f = f'/f
Grad1(l) == FDiv(l.fp, l.f)

\* lines 34 and 49: d2logF = d/dg (f'/f) = (f''f - f'f')/(f f)
Grad2(l) == FDiv(l.fpp * l.f - l.fp * l.fp, l.f * l.f)

\* (a variant without the negation)
ChiF_AD_NotNegated(d2logF) == d2logF

\* lines 35 and 50: chiF = -d2logF.item()
ChiF_AD(d2logF) == FNeg(d2logF)

\* (a variant with the sign of the projection flipped)
Project_Added(psi0, b) == Plus(b, Scale(Dot(psi0, b), psi0))

\* line 62: b = b - torch.matmul(psi0, b) * psi0
Project(psi0, b) == Minus(b, Scale(Dot(psi0, b), psi0))

\* line 65: chiF = torch.matmul(dpsi0, dpsi0).item()
ChiF_Geometric(dpsi0) == Fin(Dot(dpsi0, dpsi0), 1)

----------------------------------------------------------------------------
(* The evaluators on numbers: one call of one evaluator *)

NewEval ==
    [fn |-> "none", at |-> "none", Hmatrix |-> <<>>, pHpgmatrix |-> <<>>,
     Es |-> <<>>, psis |-> <<>>, psi0 |-> <<>>, jet |-> NoJet,
     logF |-> NoLogF, dlogF |-> NoFloat, d2logF |-> NoFloat,
     b61 |-> <<>>, b |-> <<>>, dpsi0 |-> <<>>, ret |-> NoFloat]

\* The arguments of a call: the model holds its Hamiltonian (the dense
\* matrix, which model.H applies to a vector); chiF_geometric is handed a
\* psi0.
InitEval ==
    /\ \/ \E H \in Hmatrices :
             ev = [NewEval EXCEPT !.fn = "chiF_perturbation", !.at = "L15",
                                  !.Hmatrix = H]
       \/ \E H \in Hmatrices :
             ev = [NewEval EXCEPT !.fn = "chiF_matrixAD", !.at = "L31",
                                  !.Hmatrix = H]
       \/ \E H \in Hmatrices :
             ev = [NewEval EXCEPT !.fn = "chiF_sparseAD", !.at = "L46",
                                  !.Hmatrix = H]
       \/ \E v \in Vectors :
             ev = [NewEval EXCEPT !.fn = "chiF_geometric", !.at = "L61",
                                  !.psi0 = v]
    /\ pc = "evaluator"
    /\ i = 0
    /\ gs = <<>>
    /\ model = NewModel
    /\ wiring = NoWiring
    /\ chiFs_perturbation = <<>>
    /\ chiFs_matrixAD = <<>>
    /\ chiFs_sparseAD = <<>>
    /\ chiFs_geometric = <<>>
    /\ eigenpair = NoEigenpair
    /\ frame = NoFrame
    /\ printed = <<>>
    /\ plotted = FALSE
    /\ log = <<>>
    /\ traceback = "none"

\* lines 15-16
Eval15 ==
    /\ ev.at = "L15"
    /\ \E r \in SymeigResults(ev.Hmatrix) :
          ev' = [ev EXCEPT !.Es = r.Es, !.psis = r.psis,
                           !.psi0 = GroundState(r.psis), !.at = "L18"]
    /\ UNCHANGED driverVars

\* line 18: model.setpHpg() builds the symmetric matrix of dH/dg;
\* lines 19-22: the sum over it
Eval18 ==
    /\ ev.at = "L18"
    /\ \E P \in SymMatrices :
          ev' = [ev EXCEPT
                    !.pHpgmatrix = P,
                    !.ret = ChiF_Perturbation(ev.psi0, P, ev.Es, ev.psis),
                    !.at = "returned"]
    /\ UNCHANGED driverVars

\* The smallest eigenvalue of a diagonal H.
GroundEnergy(H) ==
    CHOOSE e \in {H[n][n] : n \in Idx} : \A n \in Idx : e <= H[n][n]

\* lines 31 and 46: E0, psi0 = the dominant eigenpair primitive; psi0 is a
\* normalised eigenvector of the smallest eigenvalue
EvalPrimitive ==
    /\ ev.at \in {"L31", "L46"}
    /\ \E p \in UnitVectors :
          /\ MatVec(ev.Hmatrix, p) = Scale(GroundEnergy(ev.Hmatrix), p)
          /\ \E j \in JetsAt(p) :
                ev' = [ev EXCEPT !.jet = j, !.psi0 = j.psi,
                                 !.at = IF ev.at = "L31" THEN "L32" ELSE "L47"]
    /\ UNCHANGED driverVars

\* lines 32-33 and 47-48
EvalGrad1 ==
    /\ ev.at \in {"L32", "L47"}
    /\ ev' = [ev EXCEPT !.logF = LogF(ev.jet),
                        !.dlogF = Grad1(LogF(ev.jet)),
                        !.at = IF ev.at = "L32" THEN "L34" ELSE "L49"]
    /\ UNCHANGED driverVars

\* lines 34 and 49
EvalGrad2 ==
    /\ ev.at \in {"L34", "L49"}
    /\ ev' = [ev EXCEPT !.d2logF = Grad2(ev.logF),
                        !.at = IF ev.at = "L34" THEN "L35" ELSE "L50"]
    /\ UNCHANGED driverVars

\* lines 35-36 and 50-51
EvalReturnAD ==
    /\ ev.at \in {"L35", "L50"}
    /\ ev' = [ev EXCEPT !.ret = ChiF_AD(ev.d2logF), !.at = "returned"]
    /\ UNCHANGED driverVars

\* line 61: b = -model.pHpg(psi0), the symmetric dH/dg applied to psi0
Eval61 ==
    /\ ev.at = "L61"
    /\ \E P \in SymMatrices :
          ev' = [ev EXCEPT !.b61 = Scale(-1, MatVec(P, ev.psi0)),
                           !.b = Scale(-1, MatVec(P, ev.psi0)),
                           !.at = "L62"]
    /\ UNCHANGED driverVars

\* line 62
Eval62 ==
    /\ ev.at = "L62"
    /\ ev' = [ev EXCEPT !.b = Project(ev.psi0, ev.b), !.at = "L64"]
    /\ UNCHANGED driverVars

\* lines 63-64: dpsi0 = cg(model.g, E0, b, psi0), a vector orthogonal to psi0
Eval64 ==
    /\ ev.at = "L64"
    /\ \E x \in Vectors :
          /\ Dot(x, ev.psi0) = 0
          /\ ev' = [ev EXCEPT !.dpsi0 = x, !.at = "L65"]
    /\ UNCHANGED driverVars

\* lines 65-66
Eval65 ==
    /\ ev.at = "L65"
    /\ ev' = [ev EXCEPT !.ret = ChiF_Geometric(ev.dpsi0), !.at = "returned"]
    /\ UNCHANGED driverVars

NextEval ==
    \/ Eval15
    \/ Eval18
    \/ EvalPrimitive
    \/ EvalGrad1
    \/ EvalGrad2
    \/ EvalReturnAD
    \/ Eval61
    \/ Eval62
    \/ Eval64
    \/ Eval65

SpecEval == InitEval /\ [][NextEval]_vars

----------------------------------------------------------------------------
(* Properties of the evaluators *)

Returned(fn) == ev.fn = fn /\ ev.at = "returned"

\* u . (M v)
Bilinear(u, M, v) ==
    SumUpTo([r \in Idx |->
                u[r] * SumUpTo([c \in Idx |-> M[r][c] * v[c]], Dim)], Dim)

\* The term of the excited state n: (psi_n . pHpg . psi0)^2 / (E0 - E_n)^2,
\* E0 the smallest eigenvalue of the Hamiltonian.
C7_Term(n) ==
    LET element == Bilinear(Column(ev.psis, n), ev.pHpgmatrix, ev.psi0)
        gap == GroundEnergy(ev.Hmatrix) - ev.Es[n]
    IN  FDiv(element * element, gap * gap)

\* The terms 2..n (the excited states, 1-based), summed upwards.
RECURSIVE C7_SumExcited(_)
C7_SumExcited(n) ==
    IF n < 2 THEN Fin(0, 1) ELSE FAdd(C7_SumExcited(n - 1), C7_Term(n))

Degenerate == \E n \in 2..Dim : ev.Es[n] = ev.Es[1]

\* E_n = E0 and a vanishing numerator for some n >= 1
ZeroOverZero ==
    \E n \in 2..Dim :
        /\ ev.Es[n] = ev.Es[1]
        /\ Bilinear(Column(ev.psis, n), ev.pHpgmatrix, ev.psi0) = 0

\* C8 as stated: with a degenerate ground energy the call fails, it returns
\* no value.
C8_DegenerateCallFails ==
    (ev.fn = "chiF_perturbation" /\ ev.Es # <<>> /\ Degenerate) =>
       ev.at # "returned"

\* C8, amended: with a degenerate ground energy the call does not fail; the
\* division by zero gives inf (or nan, when a numerator vanishes as well),
\* and the call returns that value: the result is not finite exactly when
\* the ground energy is degenerate, and nan exactly when a term is 0/0.
C8_DegenerateReturnsNonFinite ==
    Returned("chiF_perturbation") =>
       /\ ev.ret.k \in {"fin", "inf", "nan"}
       /\ ev.ret.k # "fin" <=> Degenerate
       /\ ev.ret.k = "nan" <=> ZeroOverZero

\* A call on a degenerate ground energy that returned inf.
C8_Witness ==
    /\ Returned("chiF_perturbation")
    /\ Degenerate
    /\ ev.ret = Inf

AfterProjection ==
    ev.fn = "chiF_geometric" /\ ev.at \in {"L64", "L65", "returned"}

\* C9 as stated: after line 62, psi0 . b = 0 for every psi0 and every pHpg.
C9_OrthogonalForEveryPsi0 == AfterProjection => Dot(ev.psi0, ev.b) = 0

\* C9, amended: after line 62, psi0 . b = 0 for every psi0 of norm 1 and
\* every pHpg; for any psi0, psi0 . b is (psi0 . b of line 61) times
\* (1 - psi0 . psi0).
C9_OrthogonalForUnitPsi0 ==
    AfterProjection =>
       /\ Dot(ev.psi0, ev.psi0) = 1 => Dot(ev.psi0, ev.b) = 0
       /\ Dot(ev.psi0, ev.b) =
             Dot(ev.psi0, ev.b61) * (1 - Dot(ev.psi0, ev.psi0))

\* A psi0 of norm 1 whose b of line 61 had a part along psi0.
C9_Witness ==
    /\ AfterProjection
    /\ Dot(ev.psi0, ev.psi0) = 1
    /\ Dot(ev.psi0, ev.b61) # 0
    /\ ev.b # ev.b61

----------------------------------------------------------------------------
(* Properties of the driver *)

IsPrefix(s, t) == Len(s) <= Len(t) /\ \A n \in 1..Len(s) : s[n] = t[n]

Recorded(a, n) == a[n] # Empty

\* What one iteration runs, in the order the spec gives.
ExpectedLog ==
    <<"set_g", "requires_grad", "setHmatrix",
      "chiF_perturbation", "record_perturbation",
      "chiF_matrixAD", "record_matrixAD",
      "chiF_sparseAD", "record_sparseAD",
      "chiF_geometric", "record_geometric", "print">>

\* C1: in every iteration g is set and marked as requiring grad, then the
\* dense matrix is rebuilt, then the four evaluators run in the order
\* perturbation, matrixAD, sparseAD, geometric, each result recorded at
\* index i, and only then the line is printed; an evaluator that is about
\* to read model.Hmatrix finds the matrix built from the g tensor of this
\* iteration.
C1_SweepOrder ==
    /\ IsPrefix(log, ExpectedLog)
    /\ pc \in {"L15", "L31"} =>
          /\ model.g = [val |-> gs[i], id |-> i, requires_grad |-> TRUE]
          /\ model.Hmatrix = [built |-> TRUE, val |-> gs[i], gid |-> i,
                              tracked |-> TRUE]
    /\ \A n \in 1..Len(printed) :
          /\ printed[n].g = gs[n]
          /\ printed[n].chiF_perturbation = chiFs_perturbation[n]
          /\ printed[n].chiF_matrixAD = chiFs_matrixAD[n]
          /\ printed[n].chiF_sparseAD = chiFs_sparseAD[n]
          /\ printed[n].chiF_geometric = chiFs_geometric[n]
          /\ Recorded(chiFs_perturbation, n) /\ Recorded(chiFs_matrixAD, n)
          /\ Recorded(chiFs_sparseAD, n) /\ Recorded(chiFs_geometric, n)

\* The last iteration has run to its print.
C1_Witness ==
    /\ log = ExpectedLog
    /\ Len(printed) = Npoints
    /\ i = Npoints

\* A model constructed anew and taken through lines 79-82 and 18 for g.
FreshModel(g) == setpHpg(setHmatrix(RequiresGrad(SetG(NewModel, 1, g))))

\* The four values one iteration records on a model constructed anew.
FreshValues(g) ==
    [perturbation |-> Chi("perturbation", <<OfHmatrix(FreshModel(g)).val>>),
     matrixAD     |-> Chi("matrixAD", <<OfHmatrix(FreshModel(g)).val,
                                          FreshModel(g).g.val>>),
     sparseAD     |-> Chi("sparseAD", <<OfG(FreshModel(g), ModelWiring).val,
                                          FreshModel(g).g.val>>),
     geometric    |-> Chi("geometric", <<OfG(FreshModel(g), ModelWiring).val,
                                           FreshModel(g).g.val>>)]

\* C2: the four values recorded at index n depend on gs[n] alone: each is
\* the value a newly constructed model gives for gs[n], whatever the earlier
\* iterations left in model.g, model.Hmatrix, model.pHpgmatrix and the
\* wiring; so two indexes with the same g hold the same values, in whatever
\* order the grid lists them.
C2_PointsIndependent ==
    /\ \A n \in 1..Npoints :
          /\ Recorded(chiFs_perturbation, n) =>
                chiFs_perturbation[n] = FreshValues(gs[n]).perturbation
          /\ Recorded(chiFs_matrixAD, n) =>
                chiFs_matrixAD[n] = FreshValues(gs[n]).matrixAD
          /\ Recorded(chiFs_sparseAD, n) =>
                chiFs_sparseAD[n] = FreshValues(gs[n]).sparseAD
          /\ Recorded(chiFs_geometric, n) =>
                chiFs_geometric[n] = FreshValues(gs[n]).geometric
    /\ \A m, n \in 1..Npoints :
          (gs[m] = gs[n] /\ Recorded(chiFs_geometric, m)
                         /\ Recorded(chiFs_geometric, n)) =>
             /\ chiFs_perturbation[m] = chiFs_perturbation[n]
             /\ chiFs_matrixAD[m] = chiFs_matrixAD[n]
             /\ chiFs_sparseAD[m] = chiFs_sparseAD[n]
             /\ chiFs_geometric[m] = chiFs_geometric[n]

\* A sweep that is through, over a grid that lists a g after a different
\* one and a g twice.
C2_Witness ==
    /\ pc = "done"
    /\ \E m, n \in 1..Npoints : m < n /\ gs[m] # gs[n]
                                /\ Recorded(chiFs_perturbation, n)
    /\ \E m, n \in 1..Npoints : m < n /\ gs[m] = gs[n]

\* C5: in every call of chiF_sparseAD the setup call of line 44 has run
\* with this model's functions before the primitive is looked up (line 45),
\* before it is applied (line 46) and before either grad pass (lines 48,
\* 49): the primitive the call holds is never unset, and never another
\* model's.
C5_WiringBeforeUse ==
    /\ pc = "L45" => wiring = ModelWiring
    /\ pc \in {"L46", "L47", "L49", "L50"} =>
          /\ wiring = ModelWiring
          /\ frame.apply = ModelWiring
    /\ pc \in {"L47", "L49", "L50"} => frame.eig.H = "model.H"
    /\ (frame.fn = "chiF_sparseAD" /\ frame.graph > 0) =>
          frame.apply = ModelWiring

\* The first call of chiF_sparseAD, both grad passes done.
C5_Witness ==
    /\ pc = "L50"
    /\ i = 1
    /\ frame.graph = 2
    /\ frame.apply = ModelWiring

\* The statements of the sweep (lines 79-95 and the evaluators).
SweepStatements == Statements \ {"L96"}

\* C6 as stated: once a call of the sweep has raised at index i the process
\* is over, nothing is recorded or printed for index i or a later one, and
\* there is no plot.
C6_NothingRecordedAtFailedIndex ==
    traceback \in SweepStatements =>
       /\ pc = "raised"
       /\ ~plotted
       /\ Len(printed) < i
       /\ \A n \in i..Npoints :
             /\ ~Recorded(chiFs_perturbation, n)
             /\ ~Recorded(chiFs_matrixAD, n)
             /\ ~Recorded(chiFs_sparseAD, n)
             /\ ~Recorded(chiFs_geometric, n)

\* C6, amended: once a call of the sweep has raised at index i the process
\* is over (no statement runs any more), nothing is printed for index i or
\* a later one, nothing is recorded for a later index, there is no plot;
\* at index i itself the results of the evaluators that had returned before
\* the failing call are in their arrays, and no others.
C6_FailurePropagates ==
    traceback # "none" =>
       /\ pc = "raised"
       /\ ~ENABLED Next
       /\ ~plotted
       /\ traceback \in SweepStatements =>
             /\ Len(printed) = i - 1
             /\ \A n \in (i + 1)..Npoints :
                   /\ ~Recorded(chiFs_perturbation, n)
                   /\ ~Recorded(chiFs_matrixAD, n)
                   /\ ~Recorded(chiFs_sparseAD, n)
                   /\ ~Recorded(chiFs_geometric, n)
             /\ Recorded(chiFs_perturbation, i) <=>
                   \E n \in 1..Len(log) : log[n] = "record_perturbation"
             /\ Recorded(chiFs_matrixAD, i) <=>
                   \E n \in 1..Len(log) : log[n] = "record_matrixAD"
             /\ Recorded(chiFs_sparseAD, i) <=>
                   \E n \in 1..Len(log) : log[n] = "record_sparseAD"
             /\ Recorded(chiFs_geometric, i) <=>
                   \E n \in 1..Len(log) : log[n] = "record_geometric"

\* chiF_geometric raised in the first iteration, after three evaluators had
\* returned.
C6_Witness ==
    /\ pc = "raised"
    /\ traceback = "L64"
    /\ i = 1
    /\ Recorded(chiFs_sparseAD, 1)
    /\ ~Recorded(chiFs_geometric, 1)

\* C10: every call of chiF_geometric gets the E0, psi0 that the
\* chiF_sparseAD call of the same iteration returned, computed from the
\* current model.g, and runs after that call has wired the process-wide
\* functions with this model.
C10_GeometricUsesThisIteration ==
    pc \in {"L89", "L61", "L64", "L65"} =>
       /\ eigenpair = [defined |-> TRUE, val |-> gs[i], gid |-> i,
                       tracked |-> TRUE, H |-> "model.H"]
       /\ eigenpair.val = model.g.val
       /\ eigenpair.gid = model.g.id
       /\ wiring = ModelWiring
       /\ \E n \in 1..Len(log) : log[n] = "record_sparseAD"
       /\ pc \in {"L64", "L65"} => frame.eig = eigenpair

\* chiF_geometric about to return in the second iteration, at a g other
\* than the first one's.
C10_Witness ==
    /\ pc = "L65"
    /\ i = 2
    /\ gs[1] # gs[2]
    /\ frame.dpsi0

====
